---- MODULE Spec2Model ----
(***************************************************************************)
(* Session and browser coordination of the AutoPattern chat REPL           *)
(* (backend/automation/chat.py), the automation runner                     *)
(* (backend/automation/automation_runner.py) and the API server            *)
(* (backend/automation/server.py).                                         *)
(*                                                                         *)
(* Everything runs on one asyncio event loop.  An action of this module is *)
(* the code one coroutine executes between two suspension points (or a     *)
(* signal handler, which Python runs between two bytecodes of the main     *)
(* thread).  The REPL is suspended at the prompt (chat.py:446) or at       *)
(* `await _current_task` (chat.py:379); tasks created with create_task,    *)
(* and the request handlers of the server, run while it is suspended.      *)
(***************************************************************************)
EXTENDS Integers, Sequences, FiniteSets, TLC

\* ------------------------------------------------------------------ bounds
MaxBrowsers == 3    \* Browser(...) constructions in one run
MaxNet      == 1    \* network requests in flight at once
MaxHistory  == 2    \* entries the history may hold before the next submission
MaxCloses   == 2    \* _close_browser tasks scheduled and not yet finished
MaxAsks     == 1    \* ask_human calls in flight at once
MaxInterrupts == 2  \* KeyboardInterrupts at the prompt in a row

ExitCount    == 2                   \* chat.py:452

Descriptions == {"A"}               \* task descriptions typed or posted
NetSlots     == 1 .. MaxNet
Keys         == {"", "key"}         \* GOOGLE_API_KEY: not set, or set
TypedKeys    == {"", " ", "key", " key "}   \* lines typed at "Paste your API key here"
Models       == {"gemini-flash-latest", "gemini-pro-latest"}   \* server.py:140-146
Answers      == Descriptions        \* lines typed in answer to a question
ConsoleAsker == 0                   \* the console task, as the caller of ask_human
Askers       == {ConsoleAsker} \cup NetSlots

\* ------------------------------------------------------------------ values
NoBrowser == 0                        \* `_browser = None`
NoOwnBrowser == [headless |-> FALSE, by |-> "none", stopInvoked |-> FALSE]  \* no browser yet
NoTask    == [st |-> "None", desc |-> "", mustCancel |-> FALSE, browser |-> NoBrowser,
              runBrowser |-> NoOwnBrowser, llm_model |-> "", exc |-> "none",
              success |-> FALSE]
FreeSlot  == [st |-> "free", browser |-> NoOwnBrowser, llm_model |-> ""]
NoAsk     == [st |-> "none", result |-> ""]   \* no ask_human call in flight
NoCall    == [st |-> "none"]                  \* no LLMClient call under way

VARIABLES
    pc,               \* where the REPL coroutine (start_chat) is suspended
    pendingExc,       \* exception unwinding start_chat ("none" when there is none)
    interrupts,       \* history: KeyboardInterrupts at the prompt since it last read a line
    _current_task,    \* chat._current_task: NoTask, or the asyncio task and its state
    sigintHandler,    \* the handler signal.signal has installed for SIGINT
    original_handler, \* local of _execute_task: the handler saved at chat.py:370
    _history,         \* chat._history
    _browser,         \* chat._browser: NoBrowser or the index of a browser
    browsers,         \* every browser _get_browser constructed so far, in order
    created,          \* history: the number of Browser(...) constructions so far
    closeScheduled,   \* _close_browser tasks created (chat.py:246), not yet started
    closeAwaiting,    \* _close_browser tasks suspended in `await _browser.stop()`
    _headless,        \* chat._headless
    cfgHeadless,      \* config.headless
    rtHeadless,       \* server.runtime_settings.headless
    cfgModel,         \* config.llm_model
    rtModel,          \* server.runtime_settings.llm_model
    google_api_key,   \* config.google_api_key and GOOGLE_API_KEY ("" when missing)
    hil,              \* config.enable_human_in_loop: "unset" (no such attribute) or "on"
    net,              \* request handlers of /api/automate and /api/automate/task
    server,           \* the uvicorn server task
    headlessChanged,  \* history: some command changed the value of a headless setting
    ask,              \* per caller, the ask_human call of its agent (automation_runner.py:73)
    llm               \* a call of LLMClient: its arguments, the model's answer, its result

vars == <<pc, pendingExc, interrupts, _current_task, sigintHandler, original_handler, _history,
          _browser, browsers, created, closeScheduled, closeAwaiting, _headless, cfgHeadless,
          rtHeadless, cfgModel, rtModel, google_api_key, hil, net, server, headlessChanged,
          ask, llm>>

consoleVars  == <<pc, pendingExc, interrupts, _current_task, sigintHandler, original_handler,
                  _history>>
browserVars  == <<_browser, browsers, created>>
closeVars    == <<closeScheduled, closeAwaiting>>
settingsVars == <<_headless, cfgHeadless, rtHeadless, cfgModel, rtModel, google_api_key, hil,
                  headlessChanged>>
netVars      == <<net, server>>

\* ------------------------------------------------------------------ Init
\* start_chat has been called and has not run yet (chat.py:409); no uvicorn
\* server exists.
\* chat._headless and runtime_settings.headless are both initialised from
\* config.headless (chat.py:66, server.py:149-152), and
\* runtime_settings.llm_model from config.llm_model.  The Config dataclass of
\* config.py declares no enable_human_in_loop field; the attribute exists only
\* if the session settings were given one before the session starts.  With
\* the attribute false the agent has no ask_human tool
\* (automation_runner.py:65): the runs of such a session are the runs with
\* "on" in which the agent never asks.
SessionInit ==
    /\ pc = "start"
    /\ pendingExc = "none"
    /\ interrupts = 0
    /\ _current_task = NoTask
    /\ sigintHandler = "original"
    /\ original_handler = "original"
    /\ _history = <<>>
    /\ _browser = NoBrowser
    /\ browsers = <<>>
    /\ created = 0
    /\ closeScheduled = 0
    /\ closeAwaiting = 0
    /\ \E h \in BOOLEAN : _headless = h /\ cfgHeadless = h /\ rtHeadless = h
    /\ \E m \in Models : cfgModel = m /\ rtModel = m
    /\ google_api_key \in Keys
    /\ hil \in {"unset", "on"}
    /\ net = [i \in NetSlots |-> FreeSlot]
    /\ server = "none"
    /\ headlessChanged = FALSE
    /\ ask = [o \in Askers |-> NoAsk]

\* No LLMClient call is under way when the session starts
Init == SessionInit /\ llm = NoCall


\* ------------------------------------------------------------------ browser
\* Browser(headless=h), and who constructed it: "_get_browser" (chat.py:163) or
\* "_create_browser" (automation_runner.py:57).  The browser of _create_browser
\* is a local of run_task (automation_runner.py:156): it is kept with the task
\* that runs on it and nothing refers to it once run_task has returned.
NewBrowser(h, by) == [headless |-> h, by |-> by, stopInvoked |-> FALSE]

\* _get_browser, chat.py:161: `if _browser is None`
GetBrowserCreatesAlways(b) == TRUE
GetBrowserCreates(b) == b = NoBrowser

\* _get_browser, chat.py:161-163: the browsers after the call
GetBrowserList(b, bs, h) ==
    IF GetBrowserCreates(b) THEN Append(bs, NewBrowser(h, "_get_browser")) ELSE bs

\* _get_browser, chat.py:164: the handle returned (and held by _browser)
GetBrowserHandle(b, bs, h) ==
    IF GetBrowserCreates(b) THEN Len(bs) + 1 ELSE b

\* _get_browser, chat.py:161-163: the constructions after a call that found n
GetBrowserCreated(b, n) == IF GetBrowserCreates(b) THEN n + 1 ELSE n

\* `await _browser.stop()` is called on browser b (chat.py:172)
StopInvoked(bs, b) == [bs EXCEPT ![b].stopInvoked = TRUE]

\* _close_browser up to its suspension (chat.py:170-172): a call that finds a
\* browser invokes stop() on it and is suspended there.
CloseSuspends(b) == b # NoBrowser

\* ------------------------------------------------------------------ task
\* The asyncio task of chat.py:363 runs _run_task (chat.py:182-191) and, inside it,
\* run_task (automation_runner.py:121-237).  Its only suspension point is
\* `await agent.run()` (automation_runner.py:211); what precedes it is one step:
\* _get_browser (which awaits nothing), AutomationRunner(...), the call of
\* run_task and run_task's set-up (lines 134-199).  That step can raise:
\*   AttributeError  automation_runner.py:51 reads config.enable_human_in_loop,
\*                   which config.py does not declare;
\*   TypeError       chat.py:191 passes browser=, a keyword run_task
\*                   (automation_runner.py:121) does not declare;
\*   ValueError      automation_runner.py:141-144, when GOOGLE_API_KEY is not set;
\*   ImportError (automation_runner.py:134-139) and whatever the constructors of
\*                   the agent library raise.
\* None of these is inside run_task's try (automation_runner.py:201-237).
\* run_task never uses the handle _get_browser returned: it constructs its own
\* browser (automation_runner.py:156).
\* AutomationRunner.__init__, automation_runner.py:50: `llm_model or
\* config.llm_model`; the runner keeps the value (automation_runner.py:150)
RunnerModel(llm_model, cfg) == IF llm_model # "" THEN llm_model ELSE cfg

SetupOutcomes == IF hil = "unset" \/ google_api_key = ""
                 THEN {"raise"} ELSE {"raise", "proceed"}
RunTaskError  == IF hil = "unset" THEN "AttributeError" ELSE "TypeError"

\* The entry appended after `await _current_task` returned a result (chat.py:380-385)
ResultEntryCancelled(d, ok) == [task |-> d, success |-> ok, cancelled |-> TRUE]
ResultEntry(d, ok) == [task |-> d, success |-> ok, cancelled |-> FALSE]

\* The entry appended in `except asyncio.CancelledError` (chat.py:393-398)
CancelledEntry(d) == [task |-> d, success |-> FALSE, cancelled |-> TRUE]

\* _execute_task, chat.py:380-398: the history after the awaited task ended
HistoryAfterLatest(hist, t) ==
    CASE t.st = "result"    -> <<ResultEntry(t.desc, t.success)>>
      [] t.st = "cancelled" -> <<CancelledEntry(t.desc)>>
      [] OTHER              -> hist
HistoryAfter(hist, t) ==
    CASE t.st = "result"    -> Append(hist, ResultEntry(t.desc, t.success))
      [] t.st = "cancelled" -> Append(hist, CancelledEntry(t.desc))
      [] OTHER              -> hist

\* _execute_task, chat.py:400-402: the finally block
FinallyTask(t) == NoTask
FinallyHandlerKeeps(saved, installed) == installed
FinallyHandler(saved, installed) == saved

\* An exception leaves `await _current_task` uncaught unless it is a
\* CancelledError (chat.py:378-402: no other except clause)
Propagates(t) == t.st = "raised"

\* `server.should_exit = True`, up to `await asyncio.wait_for(server_task,
\* timeout=3.0)` (chat.py:496-498)
ShutdownServer ==
    /\ server' = "exiting"
    /\ pc' = "shutdown_wait"

\* start_chat's finally block up to its first suspension (chat.py:490-498):
\* `await _close_browser()` suspends in stop() when there is a browser; when
\* there is none it returns at once and the block runs on to wait_for
BeginShutdown ==
    IF CloseSuspends(_browser)
    THEN /\ browsers' = StopInvoked(browsers, _browser)
         /\ pc' = "shutdown_close"
         /\ UNCHANGED <<_browser, created, server>>
    ELSE /\ ShutdownServer
         /\ UNCHANGED browserVars

\* _execute_task from its start to `await _current_task` (chat.py:356-379)
ExecuteTask(d) ==
    /\ _current_task' = [NoTask EXCEPT !.st = "pending", !.desc = d]
    /\ original_handler' = sigintHandler
    /\ sigintHandler' = "_cancel_handler"
    /\ pc' = "await_task"

\* ------------------------------------------------------------------ start-up
\* Tasks and request handlers run for as long as start_chat does: when it
\* returns the event loop is closed (chat.py:506)
LoopEnded == pc \in {"exited", "aborted"}

\* The places where a line is read from the console, and how: input() handed to
\* an executor thread with `await loop.run_in_executor(None, input, ...)`
\* (chat.py:446, chat.py:341, automation_runner.py:95), or input() called by
\* the coroutine itself (chat.py:286)
ReadSites == {"prompt", "load_confirm", "ask", "key_save"}
ReadVia(site) == IF site = "key_save" THEN "direct" ELSE "executor"

\* A read of that place is under way
Reading(site) ==
    IF site = "ask" THEN \E o \in Askers : ask[o].st = "console" ELSE pc = site

\* The thread of the event loop is inside input(): no callback, task step or
\* request handler runs until the line is there
LoopBlocked == \E site \in ReadSites : Reading(site) /\ ReadVia(site) = "direct"

LoopRuns == ~LoopEnded /\ ~LoopBlocked

\* _ensure_api_key, chat.py:79-80: `if config.google_api_key: return True`
KeyAvailableAlways(key) == TRUE
KeyAvailable(key) == key # ""

\* str.strip() (chat.py:87): the line without its leading and trailing blanks
RECURSIVE Strip(_)
Strip(line) ==
    IF line = "" THEN ""
    ELSE IF SubSeq(line, 1, 1) = " " THEN Strip(SubSeq(line, 2, Len(line)))
    ELSE IF SubSeq(line, Len(line), Len(line)) = " "
         THEN Strip(SubSeq(line, 1, Len(line) - 1))
    ELSE line

\* _ensure_api_key, chat.py:79-112: the key after the call, the line `typed` at
\* "Paste your API key here" being read only when no key is configured (an
\* empty line, end of input and Ctrl+C all leave it missing)
EnsureApiKey(key, typed) == IF KeyAvailable(key) THEN key ELSE Strip(typed)

\* start_chat from its start to `await asyncio.sleep(0.3)` (chat.py:409-434):
\* sys.exit(1) without a key, else the uvicorn server task is created
StartChat(typed) ==
    /\ pc = "start"
    /\ google_api_key' = EnsureApiKey(google_api_key, typed)
    /\ IF KeyAvailable(google_api_key')
       THEN /\ server' = "starting"
            /\ pc' = "sleep"
       ELSE /\ pc' = "aborted"
            /\ UNCHANGED server
    /\ UNCHANGED <<pendingExc, interrupts, _current_task, sigintHandler, original_handler, _history,
                   browserVars, closeVars, _headless, cfgHeadless, rtHeadless, cfgModel,
                   rtModel, hil, headlessChanged, net, ask, llm>>

\* server.serve() has bound its socket and accepts connections
ServerStartup ==
    /\ LoopRuns
    /\ server = "starting"
    /\ server' = "serving"
    /\ UNCHANGED <<consoleVars, browserVars, closeVars, settingsVars, net, ask, llm>>

\* The 0.3 s are over: the banner is printed and the REPL shows its first
\* prompt (chat.py:434-446)
SleepDone ==
    /\ pc = "sleep"
    /\ pc' = "prompt"
    /\ UNCHANGED <<pendingExc, interrupts, _current_task, sigintHandler, original_handler, _history,
                   browserVars, closeVars, settingsVars, netVars, ask, llm>>

\* ------------------------------------------------------------------ REPL
\* The REPL reads its next line in an executor thread (chat.py:446, 341).  A task
\* created with create_task is already in the loop's ready queue when the REPL
\* suspends, so its first step runs before the line that is read next is handled.
AtPrompt(at) == pc = at /\ closeScheduled = 0

\* chat.py:445: `ctrl_c_count = 0` at the top of every iteration of the loop,
\* before the prompt is read
PromptCount == 0

\* chat.py:451-455: `ctrl_c_count += 1`, `if ctrl_c_count >= 2: break`
BreaksOnInterrupt(count) == count + 1 >= ExitCount

\* KeyboardInterrupt out of the prompt's `await` (chat.py:450-455): the count
\* that iteration started with is incremented and compared; `continue` starts
\* the next iteration
PromptInterrupt ==
    /\ AtPrompt("prompt")
    /\ interrupts < MaxInterrupts
    /\ interrupts' = interrupts + 1
    /\ IF BreaksOnInterrupt(PromptCount)
       THEN BeginShutdown
       ELSE UNCHANGED <<pc, browserVars, server>>
    /\ UNCHANGED <<pendingExc, _current_task, sigintHandler, original_handler, _history,
                   closeVars, settingsVars, net, ask, llm>>

\* A task line at the prompt (chat.py:457-488)
SubmitLine(d) ==
    /\ AtPrompt("prompt")
    /\ Len(_history) < MaxHistory
    /\ ExecuteTask(d)
    /\ interrupts' = PromptCount
    /\ UNCHANGED <<pendingExc, _history, browserVars, closeVars, settingsVars, netVars, ask, llm>>

\* /load <file>: the workflow is loaded and described, then the REPL waits for
\* the answer to "Run this task?" (chat.py:295-341)
CmdLoad ==
    /\ AtPrompt("prompt")
    /\ Len(_history) < MaxHistory
    /\ pc' = "load_confirm"
    /\ interrupts' = PromptCount
    /\ UNCHANGED <<pendingExc, _current_task, sigintHandler, original_handler, _history,
                   browserVars, closeVars, settingsVars, netVars, ask, llm>>

\* The answer to "Run this task?" (chat.py:346-349)
LoadAnswer(d, yes) ==
    /\ AtPrompt("load_confirm")
    /\ IF yes
       THEN ExecuteTask(d)
       ELSE /\ pc' = "prompt"
            /\ UNCHANGED <<_current_task, sigintHandler, original_handler>>
    /\ UNCHANGED <<pendingExc, interrupts, _history, browserVars, closeVars, settingsVars, netVars, ask, llm>>

\* The first step of the asyncio task: cancelled before it started, or the
\* set-up of _run_task and run_task up to `await agent.run()`
RunTaskStep ==
    /\ LoopRuns
    /\ _current_task.st = "pending"
    /\ IF _current_task.mustCancel
       THEN /\ _current_task' = [_current_task EXCEPT !.st = "cancelled"]
            /\ UNCHANGED browserVars
       ELSE \E o \in SetupOutcomes :
            LET bs == GetBrowserList(_browser, browsers, _headless)
                b  == GetBrowserHandle(_browser, browsers, _headless)
                n  == GetBrowserCreated(_browser, created)
            IN  /\ _browser' = b
                /\ browsers' = bs
                /\ IF o = "raise"
                   THEN /\ n <= MaxBrowsers
                        /\ created' = n
                        /\ _current_task' = [_current_task EXCEPT !.st = "raised",
                                               !.browser = b, !.exc = RunTaskError]
                   ELSE /\ n < MaxBrowsers
                        /\ created' = n + 1
                        /\ _current_task' = [_current_task EXCEPT !.st = "running",
                                               !.browser = b,
                                               !.runBrowser = NewBrowser(_headless, "_create_browser"),
                                               !.llm_model = RunnerModel(cfgModel, cfgModel)]
    /\ UNCHANGED <<pc, pendingExc, interrupts, sigintHandler, original_handler, _history,
                   closeVars, settingsVars, netVars, ask, llm>>

\* agent.run() returned (ok) or raised an Exception, which run_task turns into a
\* result without success (automation_runner.py:211-237).  A unit that was asked
\* to cancel and went on regardless ends the same way.  While ask_human is
\* suspended the agent is inside that tool call.
AgentDone(ok) ==
    /\ LoopRuns
    /\ _current_task.st = "running"
    /\ ask[ConsoleAsker].st = "none"
    /\ _current_task' = [_current_task EXCEPT !.st = "result", !.success = ok]
    /\ UNCHANGED <<pc, pendingExc, interrupts, sigintHandler, original_handler, _history,
                   browserVars, closeVars, settingsVars, netVars, ask, llm>>

\* The CancelledError thrown into `await agent.run()` comes out of it: it is no
\* Exception (automation_runner.py:225), so the task ends cancelled; a suspended
\* ask_human is unwound with it
AgentCancelled ==
    /\ LoopRuns
    /\ _current_task.st = "running"
    /\ _current_task.mustCancel
    /\ _current_task' = [_current_task EXCEPT !.st = "cancelled"]
    /\ ask' = [ask EXCEPT ![ConsoleAsker] = NoAsk]
    /\ UNCHANGED <<pc, pendingExc, interrupts, sigintHandler, original_handler, _history,
                   browserVars, closeVars, settingsVars, netVars, llm>>

\* SIGINT while _cancel_handler is installed (chat.py:372-374)
SigintStopsListener ==
    /\ sigintHandler = "_cancel_handler"
    /\ _current_task' = IF _current_task.st \in {"pending", "running"}
                        THEN [_current_task EXCEPT !.mustCancel = TRUE]
                        ELSE _current_task
    /\ server' = "exiting"
    /\ UNCHANGED <<pc, pendingExc, interrupts, sigintHandler, original_handler, _history,
                   browserVars, closeVars, settingsVars, net, ask, llm>>
Sigint ==
    /\ sigintHandler = "_cancel_handler"
    /\ _current_task' = IF _current_task.st \in {"pending", "running"}
                        THEN [_current_task EXCEPT !.mustCancel = TRUE]
                        ELSE _current_task
    /\ UNCHANGED <<pc, pendingExc, interrupts, sigintHandler, original_handler, _history,
                   browserVars, closeVars, settingsVars, netVars, ask, llm>>

\* _execute_task resumes from `await _current_task` (chat.py:379-402); an
\* exception it does not catch unwinds start_chat into its finally (chat.py:490)
ExecuteResume ==
    /\ LoopRuns
    /\ pc = "await_task"
    /\ _current_task.st \in {"result", "raised", "cancelled"}
    /\ _history' = HistoryAfter(_history, _current_task)
    /\ sigintHandler' = FinallyHandler(original_handler, sigintHandler)
    /\ IF Propagates(_current_task)
       THEN /\ pendingExc' = _current_task.exc
            /\ BeginShutdown
       ELSE /\ pc' = "prompt"
            /\ UNCHANGED <<pendingExc, browserVars, server>>
    /\ _current_task' = FinallyTask(_current_task)
    /\ UNCHANGED <<interrupts, original_handler, closeVars, settingsVars, net, ask, llm>>

\* /headless on|off (chat.py:225-248)
CmdHeadless(v) ==
    /\ AtPrompt("prompt")
    /\ closeScheduled + closeAwaiting < MaxCloses
    /\ _headless' = v
    /\ cfgHeadless' = v
    /\ closeScheduled' = IF _browser # NoBrowser THEN closeScheduled + 1 ELSE closeScheduled
    /\ headlessChanged' = (headlessChanged \/ v # _headless \/ v # cfgHeadless)
    /\ interrupts' = PromptCount
    /\ UNCHANGED <<pc, pendingExc, _current_task, sigintHandler, original_handler, _history,
                   browserVars, closeAwaiting, rtHeadless, cfgModel, rtModel,
                   google_api_key, hil, netVars, ask, llm>>

\* /model <name> (chat.py:202-222)
CmdModel(m) ==
    /\ AtPrompt("prompt")
    /\ cfgModel' = m
    /\ rtModel' = m
    /\ interrupts' = PromptCount
    /\ UNCHANGED <<pc, pendingExc, _current_task, sigintHandler, original_handler, _history,
                   browserVars, closeVars, _headless, cfgHeadless, rtHeadless,
                   google_api_key, hil, headlessChanged, netVars, ask, llm>>

\* /clear (chat.py:263-265)
CmdClear ==
    /\ AtPrompt("prompt")
    /\ _history' = <<>>
    /\ interrupts' = PromptCount
    /\ UNCHANGED <<pc, pendingExc, _current_task, sigintHandler, original_handler,
                   browserVars, closeVars, settingsVars, netVars, ask, llm>>

\* /key <key> (chat.py:279-286): the key is set, then _cmd_key asks
\* "Save to .env? (Y/n)" with input()
CmdKey(k) ==
    /\ AtPrompt("prompt")
    /\ k # ""
    /\ google_api_key' = k
    /\ pc' = "key_save"
    /\ interrupts' = PromptCount
    /\ UNCHANGED <<pendingExc, _current_task, sigintHandler, original_handler, _history,
                   browserVars, closeVars, _headless, cfgHeadless, rtHeadless, cfgModel,
                   rtModel, hil, headlessChanged, netVars, ask, llm>>

\* The answer to "Save to .env?", or EOFError or KeyboardInterrupt in its place
\* (chat.py:286-292); the REPL goes on to its next prompt
KeySaveAnswer ==
    /\ pc = "key_save"
    /\ pc' = "prompt"
    /\ UNCHANGED <<pendingExc, interrupts, _current_task, sigintHandler, original_handler,
                   _history, browserVars, closeVars, settingsVars, netVars, ask, llm>>

\* /quit, /exit or end of input (chat.py:447-449, 467-468)
CmdQuit ==
    /\ AtPrompt("prompt")
    /\ BeginShutdown
    /\ interrupts' = PromptCount
    /\ UNCHANGED <<pendingExc, _current_task, sigintHandler, original_handler, _history,
                   closeVars, settingsVars, net, ask, llm>>

\* ------------------------------------------------------------------ _close_browser
\* A scheduled _close_browser task starts (chat.py:167-172)
CloseStart ==
    /\ LoopRuns
    /\ closeScheduled > 0
    /\ closeScheduled' = closeScheduled - 1
    /\ IF CloseSuspends(_browser)
       THEN /\ browsers' = StopInvoked(browsers, _browser)
            /\ closeAwaiting' = closeAwaiting + 1
       ELSE UNCHANGED <<browsers, closeAwaiting>>
    /\ UNCHANGED <<consoleVars, _browser, created, settingsVars, netVars, ask, llm>>

\* _close_browser after `await _browser.stop()` returned or raised an
\* Exception (chat.py:171-175): `except Exception: pass`, then `_browser = None`
AfterStopPropagates(b, raised) == IF raised THEN b ELSE NoBrowser
AfterStop(b, raised) == NoBrowser

\* stop() returned or raised in a scheduled _close_browser (chat.py:173-175)
CloseDone(raised) ==
    /\ LoopRuns
    /\ closeAwaiting > 0
    /\ closeAwaiting' = closeAwaiting - 1
    /\ _browser' = AfterStop(_browser, raised)
    /\ UNCHANGED <<consoleVars, browsers, created, closeScheduled, settingsVars, netVars, ask, llm>>

\* The same in start_chat's finally, which then runs on to wait_for
\* (chat.py:494-498)
ShutdownCloseDone(raised) ==
    /\ pc = "shutdown_close"
    /\ _browser' = AfterStop(_browser, raised)
    /\ ShutdownServer
    /\ UNCHANGED <<pendingExc, interrupts, _current_task, sigintHandler, original_handler, _history,
                   browsers, created, closeVars, settingsVars, net, ask, llm>>

\* server.serve() returns once it has seen should_exit
ServerExits ==
    /\ LoopRuns
    /\ server = "exiting"
    /\ server' = "stopped"
    /\ UNCHANGED <<consoleVars, browserVars, closeVars, settingsVars, net, ask, llm>>

\* wait_for returns: server_task is done (chat.py:498, 506)
WaitDone ==
    /\ pc = "shutdown_wait"
    /\ server = "stopped"
    /\ pc' = "exited"
    /\ UNCHANGED <<pendingExc, interrupts, _current_task, sigintHandler, original_handler, _history,
                   browserVars, closeVars, settingsVars, netVars, ask, llm>>

\* wait_for raises TimeoutError after 3 s: `server_task.cancel()`, up to
\* `await server_task` (chat.py:499-502)
WaitTimeout ==
    /\ pc = "shutdown_wait"
    /\ server = "exiting"
    /\ pc' = "shutdown_cancel"
    /\ UNCHANGED <<pendingExc, interrupts, _current_task, sigintHandler, original_handler, _history,
                   browserVars, closeVars, settingsVars, netVars, ask, llm>>

\* `await server_task` ends, with CancelledError unless serve() had returned
\* (chat.py:502-506)
CancelDone ==
    /\ pc = "shutdown_cancel"
    /\ server' = IF server = "stopped" THEN "stopped" ELSE "cancelled"
    /\ pc' = "exited"
    /\ UNCHANGED <<pendingExc, interrupts, _current_task, sigintHandler, original_handler, _history,
                   browserVars, closeVars, settingsVars, net, ask, llm>>

\* ------------------------------------------------------------------ server
\* server.py:285 and 310: `request.headless if request.headless else
\* runtime_settings.headless`
UseHeadlessRuntime(req, rt) == rt
UseHeadless(req, rt) == IF req THEN req ELSE rt

\* The run of a request handler from AutomationRunner(headless=...) to its
\* suspension in `await agent.run()` (server.py:284-288, 312-316;
\* automation_runner.py:49-52, 156, 181-211).  The AttributeError of
\* automation_runner.py:51 and the ValueError of automation_runner.py:143 are
\* caught at server.py:297/325 and answered with 500.
NetRun(i, h) ==
    /\ LoopRuns
    /\ server = "serving"
    /\ net[i].st = "free"
    /\ \A j \in NetSlots : j < i => net[j].st # "free"
    /\ IF "proceed" \notin SetupOutcomes
       THEN UNCHANGED <<net, created>>
       ELSE /\ created < MaxBrowsers
            /\ created' = created + 1
            /\ net' = [net EXCEPT ![i] =
                         [st |-> "running",
                          browser |-> NewBrowser(UseHeadless(h, rtHeadless), "_create_browser"),
                          llm_model |-> RunnerModel("", cfgModel)]]
    /\ UNCHANGED <<consoleVars, _browser, browsers, closeVars, settingsVars, server, ask, llm>>

\* POST /api/automate (server.py:224-298)
AutomateWorkflow(i, h) == NetRun(i, h)

\* POST /api/automate/task (server.py:301-326)
AutomateTask(i, h) == NetRun(i, h)

\* agent.run() returned (ok) or raised (automation_runner.py:211-237), and the
\* handler answers (server.py:290-295, 318-323)
NetAgentDone(i) ==
    /\ LoopRuns
    /\ net[i].st = "running"
    /\ ask[i].st = "none"
    /\ net' = [net EXCEPT ![i] = FreeSlot]
    /\ UNCHANGED <<consoleVars, browserVars, closeVars, settingsVars, server, ask, llm>>

\* PUT /api/settings (server.py:164-177)
UpdateSettings(m, h) ==
    /\ LoopRuns
    /\ server = "serving"
    /\ rtModel' = m
    /\ cfgModel' = m
    /\ rtHeadless' = h
    /\ cfgHeadless' = h
    /\ headlessChanged' = (headlessChanged \/ h # rtHeadless \/ h # cfgHeadless)
    /\ UNCHANGED <<consoleVars, browserVars, closeVars, _headless, google_api_key, hil,
                   netVars, ask, llm>>

\* ------------------------------------------------------------------ ask_human
\* The human_input_callback of a runner.  Every runner of the program is built
\* without one (chat.py:187-190, server.py:284-286, 312-314;
\* automation_runner.py:47, 52).
human_input_callback == "None"

\* ask_human, automation_runner.py:83-95: `if callback:` awaits
\* callback(question), else it awaits input() in an executor thread
AskVia(callback) == IF callback # "None" THEN "callback" ELSE "console"

\* ask_human, automation_runner.py:97-99: the ActionResult handed to the agent,
\* `extracted_content=f"Human responded: {answer}"`
HumanResponded(answer) == "Human responded: " \o answer

\* The answer the agent finds in that content, after the fixed prefix
AnswerIn(content) == SubSeq(content, Len("Human responded: ") + 1, Len(content))

\* The agent of caller o is inside agent.run() (automation_runner.py:211)
AgentRuns(o) == IF o = ConsoleAsker THEN _current_task.st = "running"
                ELSE net[o].st = "running"

\* The agent calls the ask_human tool, which exists when enable_human_in_loop
\* is true (automation_runner.py:65-95); the call is suspended for the answer
AskHuman(o) ==
    /\ LoopRuns
    /\ hil = "on"
    /\ AgentRuns(o)
    /\ ask[o].st = "none"
    /\ Cardinality({p \in Askers : ask[p].st # "none"}) < MaxAsks
    /\ ask' = [ask EXCEPT ![o] = [st |-> AskVia(human_input_callback), result |-> ""]]
    /\ UNCHANGED <<consoleVars, browserVars, closeVars, settingsVars, netVars, llm>>

\* The operator types `a` in answer to the question of o, and the input() of
\* ask_human returns that line (automation_runner.py:95-99)
AnswerTaken(o, a) ==
    /\ LoopRuns
    /\ ask[o].st = "console"
    /\ ask' = [ask EXCEPT ![o] = [st |-> "returned", result |-> HumanResponded(a)]]
    /\ UNCHANGED <<consoleVars, browserVars, closeVars, settingsVars, netVars, llm>>

\* The operator types `a` in answer to the question of o, but the REPL is
\* suspended in its own input() on the same stdin (chat.py:446) and that call
\* returns the line: it is handled as a task line
AnswerTakenByPrompt(o, a) ==
    /\ ask[o].st = "console"
    /\ SubmitLine(a)

\* The agent goes on with the ActionResult
AskResumes(o) ==
    /\ LoopRuns
    /\ ask[o].st = "returned"
    /\ ask' = [ask EXCEPT ![o] = NoAsk]
    /\ UNCHANGED <<consoleVars, browserVars, closeVars, settingsVars, netVars, llm>>

\* ------------------------------------------------------------------ LLMClient
\* Text operations of Python used by llm_client.py
Min(a, b) == IF a <= b THEN a ELSE b

\* s[:n]
Prefix(s, n) == SubSeq(s, 1, Min(n, Len(s)))

\* s.startswith(p), s.endswith(p), `p in s`
StartsWith(s, p) == Len(s) >= Len(p) /\ SubSeq(s, 1, Len(p)) = p
EndsWith(s, p)   == Len(s) >= Len(p) /\ SubSeq(s, Len(s) - Len(p) + 1, Len(s)) = p
Contains(p, s)   == \E i \in 1 .. Len(s) - Len(p) + 1 : SubSeq(s, i, i + Len(p) - 1) = p

\* str.lower() and str.upper() of one character, for the letters the field
\* names below are written with
LowerChar(c) == CASE c = "P" -> "p" [] c = "U" -> "u" [] c = "Q" -> "q" [] OTHER -> c
UpperChar(c) == CASE c = "p" -> "P" [] c = "u" -> "U" [] c = "q" -> "Q" [] OTHER -> c

RECURSIVE Lower(_)
Lower(s) == IF s = "" THEN "" ELSE LowerChar(SubSeq(s, 1, 1)) \o Lower(SubSeq(s, 2, Len(s)))

\* str.title() of a name of one word: first letter upper case, the rest lower
Title(s) == IF s = "" THEN "" ELSE UpperChar(SubSeq(s, 1, 1)) \o Lower(SubSeq(s, 2, Len(s)))

\* " ".join(parts)
RECURSIVE Join(_)
Join(parts) ==
    IF parts = <<>> THEN ""
    ELSE IF Len(parts) = 1 THEN parts[1]
    ELSE parts[1] \o " " \o Join(Tail(parts))

\* What a call returns or raises
Returned(v) == [kind |-> "returned", value |-> v]
Raised(e)   == [kind |-> "raised", exc |-> e]

\* What llm.invoke does (llm_client.py:138, 265): it raises, or its response has
\* a text content, or a content made of parts
Prompts  == {"", "Here is a recorded browser workflow"}
Fence    == "'''"     \* the three backquotes of a code fence, written with quotes
Contents == {"{}", " {} ", Fence \o "json{\"steps\": [{}]}" \o Fence, "[]", "oops"}
Invokes  == {[kind |-> "raises", exc |-> e] : e \in {"ConnectionError", "ResourceExhausted"}}
              \cup {[kind |-> "text", content |-> c] : c \in Contents}
              \cup {[kind |-> "parts", parts |-> <<c, "oops">>] : c \in {"{}", "x"}}

\* llm_client.py:142-145: `" ".join(str(c) for c in content)` for a list, then
\* str(content)
ContentText(invoke) ==
    IF invoke.kind = "parts" THEN Join(invoke.parts) ELSE invoke.content

\* llm_client.py:151: the fallback of _generate
PromptPrefixLen == 200
GenerateFallback(prompt) ==
    "Perform the task based on: " \o Prefix(prompt, PromptPrefixLen) \o "..."

\* LLMClient._generate, llm_client.py:134-151
Generate(prompt, invoke) ==
    IF invoke.kind = "raises"
    THEN Returned(GenerateFallback(prompt))
    ELSE Returned(Strip(ContentText(invoke)))

\* The events handed to generate_workflow_steps: dicts with 'event_type',
\* 'url' and, for an input event, the field name and the input type in 'data'
\* (llm_client.py:170-176).  A 'url' key may hold None.
NoneValue  == "<None>"
Str(v)     == IF v = NoneValue THEN "None" ELSE v       \* str(v), f"{v}"
Urls       == {NoneValue, "https://www.google.com/", "https://x/login"}
FieldNames == {"Password", "user", "q"}
InputTypes == {"text", "search"}
Events     ==
    {[event_type |-> "navigation", url |-> u, field |-> "", type |-> ""] : u \in Urls}
      \cup {[event_type |-> "input", url |-> u, field |-> f, type |-> t] :
              u \in Urls, f \in FieldNames, t \in InputTypes}
MaxEvents  == 2
EventLists == UNION {[1 .. n -> Events] : n \in 0 .. MaxEvents}

\* llm_client.py:203-204: no 'value' key, so value = '[text entered]' and
\* value_length = len(str(value))
DefaultValue == "[text entered]"

\* llm_client.py:207-209
OtpWords == {"otp", "code", "2fa", "totp", "auth", "verify"}
IsPassword(e) == e.type = "password" \/ Contains("pass", Lower(e.field))
IsEmail(e)    == e.type = "email" \/ Contains("email", Lower(e.field))
                   \/ Contains("@", DefaultValue)
IsOtp(e)      == \E w \in OtpWords : Contains(w, Lower(e.field))

\* llm_client.py:214-222: the entry of input_fields_detected for an input event
DetectedField(e) ==
    [field_name |-> e.field, input_type |-> e.type, is_password |-> IsPassword(e),
     is_email |-> IsEmail(e), is_otp |-> IsOtp(e), value_length |-> Len(DefaultValue),
     url |-> e.url]

\* llm_client.py:168-222: input_fields_detected after the loop over the events
RECURSIVE InputFieldsDetected(_)
InputFieldsDetected(events) ==
    IF events = <<>> THEN <<>>
    ELSE (IF Head(events).event_type = "input" THEN <<DetectedField(Head(events))>> ELSE <<>>)
           \o InputFieldsDetected(Tail(events))

\* llm_client.py:179-180, 224-236: the line of events_summary for event i
SummaryLine(i, e) ==
    IF e.event_type = "navigation"
    THEN ToString(i) \o ". Navigated to: " \o Str(e.url) \o " (Page: )"
    ELSE ToString(i) \o ". INPUT"
           \o (IF IsPassword(e) THEN " [PASSWORD FIELD]"
               ELSE IF IsOtp(e) THEN " [2FA/OTP CODE FIELD]"
               ELSE IF IsEmail(e) THEN " [EMAIL FIELD]" ELSE "")
           \o ": Entered '" \o (IF IsPassword(e) THEN "[MASKED]" ELSE DefaultValue)
           \o "' (length: " \o ToString(Len(DefaultValue)) \o ") in field '" \o e.field
           \o "' (type: " \o e.type \o ") on page: " \o Str(e.url)

EventsSummary(events) == [i \in 1 .. Len(events) |-> SummaryLine(i, events[i])]

\* llm_client.py:314, 322: `events_summary[:10]` numbered from 1
FallbackStepCount == 10
FallbackStepList(events) ==
    [i \in 1 .. Min(FallbackStepCount, Len(events)) |->
        [id |-> i, label |-> EventsSummary(events)[i]]]

\* _generate_fallback_inputs, llm_client.py:332-333: field.get('url', '').lower()
\* is evaluated for every field, and None has no lower()
FallbackInputsRaise(fields) == \E i \in 1 .. Len(fields) : fields[i].url = NoneValue

\* _generate_fallback_inputs, llm_client.py:335-358: the field is skipped, or
\* the key, label and type it is listed with
SkipsField(f) ==
    \/ Contains("google.com", Lower(f.url)) /\ f.input_type = "search"
    \/ Contains("google", Lower(f.field_name)) /\ Contains("search", Lower(f.field_name))

KeyLen == 20
RequiredInput(f) ==
    IF f.is_password
    THEN [key |-> "password", label |-> "Password", type |-> "password",
          field_hint |-> f.field_name]
    ELSE IF f.is_otp
    THEN [key |-> "auth_code", label |-> "2FA / Authenticator Code", type |-> "code",
          field_hint |-> f.field_name]
    ELSE IF f.is_email \/ Contains("user", Lower(f.field_name))
                       \/ Contains("login", Lower(f.field_name))
    THEN [key |-> "username", label |-> "Username / Email", type |-> "email",
          field_hint |-> f.field_name]
    ELSE [key |-> Prefix(Lower(f.field_name), KeyLen), label |-> Title(f.field_name),
          type |-> "text", field_hint |-> f.field_name]

\* _generate_fallback_inputs, llm_client.py:326-370, for fields none of which
\* makes it raise: `seen` holds the keys already listed
RECURSIVE FallbackInputsFrom(_, _)
FallbackInputsFrom(fields, seen) ==
    IF fields = <<>> THEN <<>>
    ELSE LET f == Head(fields)
             r == RequiredInput(f)
         IN  IF SkipsField(f) \/ r.key \in seen
             THEN FallbackInputsFrom(Tail(fields), seen)
             ELSE <<r>> \o FallbackInputsFrom(Tail(fields), seen \cup {r.key})

\* llm_client.py:311-316, 319-324: the value built in the except clauses of
\* generate_workflow_steps; building it can raise
StepsFallback(events) ==
    IF FallbackInputsRaise(InputFieldsDetected(events))
    THEN Raised("AttributeError")
    ELSE Returned([title |-> "Workflow",
                   description |-> "Recorded workflow (AI analysis failed)",
                   steps |-> FallbackStepList(events),
                   required_inputs |-> FallbackInputsFrom(InputFieldsDetected(events), {})])

\* llm_client.py:274-281: the text handed to json.loads, the code fence removed
FenceLang == Fence \o "json"
DropPrefix(c, p) == IF StartsWith(c, p) THEN SubSeq(c, Len(p) + 1, Len(c)) ELSE c
DropSuffix(c, p) == IF EndsWith(c, p) THEN SubSeq(c, 1, Len(c) - Len(p)) ELSE c
Unfenced(content) ==
    Strip(DropSuffix(DropPrefix(DropPrefix(Strip(content), FenceLang), Fence), Fence))

\* json.loads (llm_client.py:283) on the texts of Contents: a dict, given by its
\* keys and the keys of each of its steps, a list, or a JSONDecodeError
JsonLoads(text) ==
    CASE text = "{}" -> [kind |-> "dict", keys |-> {}, steps |-> <<>>]
      [] text = "{\"steps\": [{}]}" -> [kind |-> "dict", keys |-> {"steps"}, steps |-> <<{}>>]
      [] text = "[]" -> [kind |-> "list"]
      [] OTHER -> [kind |-> "JSONDecodeError"]

\* llm_client.py:296-299: ids made sequential, missing labels filled in
NumberedSteps(steps) == [i \in 1 .. Len(steps) |-> [id |-> i, label |-> "Step " \o ToString(i)]]

\* LLMClient.generate_workflow_steps, llm_client.py:264-324.  Inside the try a
\* result that is no dict raises TypeError at line 287, and
\* _generate_fallback_inputs (line 303) can raise: both reach `except Exception`.
GenerateWorkflowSteps(events, invoke) ==
    LET fields == InputFieldsDetected(events)
        parsed == JsonLoads(Unfenced(ContentText(invoke)))
    IN  IF invoke.kind = "raises" THEN StepsFallback(events)
        ELSE IF parsed.kind # "dict" THEN StepsFallback(events)
        ELSE IF fields # <<>> /\ FallbackInputsRaise(fields) THEN StepsFallback(events)
        ELSE Returned([title |-> "Workflow", description |-> "Recorded workflow",
                       steps |-> NumberedSteps(parsed.steps),
                       required_inputs |-> FallbackInputsFrom(fields, {})])

\* The language-generation call failed: invoke raised, or its answer could not
\* be used
GenerationFailed(call) ==
    \/ call.invoke.kind = "raises"
    \/ call.fn = "generate_workflow_steps"
         /\ JsonLoads(Unfenced(ContentText(call.invoke))).kind # "dict"

\* A call of generate_task_description or generate_from_summary runs
\* (llm_client.py:106-132)
CallGenerate ==
    /\ llm.st = "called" /\ llm.fn = "_generate"
    /\ llm' = [llm EXCEPT !.st = "done", !.result = Generate(llm.prompt, llm.invoke)]
    /\ UNCHANGED <<consoleVars, browserVars, closeVars, settingsVars, netVars, ask>>

\* A call of generate_workflow_steps runs (llm_client.py:153-324)
CallGenerateWorkflowSteps ==
    /\ llm.st = "called" /\ llm.fn = "generate_workflow_steps"
    /\ llm' = [llm EXCEPT !.st = "done",
                           !.result = GenerateWorkflowSteps(llm.events, llm.invoke)]
    /\ UNCHANGED <<consoleVars, browserVars, closeVars, settingsVars, netVars, ask>>

NoResult == [kind |-> "none"]

\* An LLMClient exists (llm_client.py:88-104) and one of its methods is called
LlmInit ==
    /\ SessionInit
    /\ google_api_key # ""
    /\ \E fn \in {"_generate", "generate_workflow_steps"}, p \in Prompts, es \in EventLists,
          i \in Invokes :
          llm = [st |-> "called", fn |-> fn, prompt |-> p, invoke |-> i, result |-> NoResult,
                 events |-> IF fn = "_generate" THEN <<>> ELSE es]

LlmNext == CallGenerate \/ CallGenerateWorkflowSteps

LlmSpec == LlmInit /\ [][LlmNext]_vars

\* ------------------------------------------------------------------ specification
Next ==
    \/ \E typed \in TypedKeys : StartChat(typed)
    \/ ServerStartup
    \/ SleepDone
    \/ \E d \in Descriptions : SubmitLine(d)
    \/ CmdLoad
    \/ \E d \in Descriptions, yes \in BOOLEAN : LoadAnswer(d, yes)
    \/ RunTaskStep
    \/ \E ok \in BOOLEAN : AgentDone(ok)
    \/ AgentCancelled
    \/ Sigint
    \/ ExecuteResume
    \/ \E v \in BOOLEAN : CmdHeadless(v)
    \/ CmdClear
    \/ CmdQuit
    \/ \E k \in Keys : CmdKey(k)
    \/ KeySaveAnswer
    \/ PromptInterrupt
    \/ CloseStart
    \/ \E raised \in BOOLEAN : CloseDone(raised)
    \/ \E raised \in BOOLEAN : ShutdownCloseDone(raised)
    \/ ServerExits
    \/ WaitDone
    \/ WaitTimeout
    \/ CancelDone
    \/ \E i \in NetSlots, h \in BOOLEAN : AutomateWorkflow(i, h)
    \/ \E i \in NetSlots, h \in BOOLEAN : AutomateTask(i, h)
    \/ \E i \in NetSlots : NetAgentDone(i)
    \/ \E m \in Models, h \in BOOLEAN : UpdateSettings(m, h)
    \/ \E m \in Models : CmdModel(m)
    \/ \E o \in Askers : AskHuman(o)
    \/ \E o \in Askers, a \in Answers : AnswerTaken(o, a)
    \/ \E o \in Askers, a \in Answers : AnswerTakenByPrompt(o, a)
    \/ \E o \in Askers : AskResumes(o)

Spec == Init /\ [][Next]_vars

\* The event loop runs every step it has scheduled: the first step of a created
\* task and the resumption of a coroutine whose awaited task is done.  Nothing
\* obliges the agent library to return from agent.run() or from stop().
FairSpec == Spec /\ WF_vars(RunTaskStep) /\ WF_vars(ExecuteResume) /\ WF_vars(CloseStart)

\* ------------------------------------------------------------------ vocabulary
\* A task is Running from its creation until it is done (chat.py:373
\* `not _current_task.done()`); a request handler, while it awaits run_task
ConsoleRunning == _current_task.st \in {"pending", "running"}
NetRunning     == {i \in NetSlots : net[i].st = "running"}
RunningCount   == (IF ConsoleRunning THEN 1 ELSE 0) + Cardinality(NetRunning)

\* _execute_task is left in this step (chat.py:379-402)
ExecuteExits == pc = "await_task" /\ pc' # "await_task"

\* ------------------------------------------------------------------ claims
\* C1: at most one task is Running at any instant, whatever the sequence of
\* console, /load and network submissions.
C1_AtMostOneRunning == RunningCount <= 1

\* C2: no error raised while a submitted task executes propagates out of
\* _execute_task; the REPL is never unwound by one.
C2_NoErrorEscapes == pendingExc = "none"

\* C3: every call of _execute_task has appended exactly one history entry by the
\* time it exits, on every exit path.
C3_OneEntryPerCall == [][ExecuteExits => Len(_history') = Len(_history) + 1]_vars

\* C4: whenever _execute_task is not in progress (so after each of its exits:
\* result, error, cancellation) the SIGINT handler is the one installed before
\* the call and _current_task is None.
C4_CleanupOnExit ==
    pc # "await_task" => (sigintHandler = "original" /\ _current_task = NoTask)

\* C4 witness: a call ended by cancellation and a later one by an error
C4_Witness ==
    /\ pendingExc # "none"
    /\ Len(_history) >= 1 /\ _history[1].cancelled
    /\ sigintHandler = "original" /\ _current_task = NoTask

C7_BusySubmissionRejected == [][RunningCount >= 1 => RunningCount' <= RunningCount]_vars

\* C8: as long as no command changed the headless configuration, at most one
\* browser is ever created (consecutive tasks share one handle).
C8_SameHandleWithoutChange == ~headlessChanged => created <= 1

C10_SingleAcquisitionPoint ==
    /\ _current_task.runBrowser # NoOwnBrowser
         => _current_task.runBrowser.by = "_get_browser"
    /\ \A i \in NetRunning : net[i].browser.by = "_get_browser"

\* ------------------------------------------------------------------ C11
\* The step in which the console task calls _get_browser (chat.py:186).  The
\* coroutine awaits nothing between its test and its assignment (chat.py:161-164),
\* so on the one event loop acquisitions interleave only as whole steps.
Acquires == _current_task.st = "pending" /\ _current_task'.st \in {"raised", "running"}

\* Browsers that _get_browser constructed
GetBrowserCount == Cardinality({i \in DOMAIN browsers : browsers[i].by = "_get_browser"})

HumanAnswers(o, a) == AnswerTaken(o, a) \/ AnswerTakenByPrompt(o, a)

\* C13: when the operator answers a question, the value handed back to the
\* agent that asked carries exactly that answer.
C13_AnswerHandedBack ==
    [][\A o \in Askers, a \in Answers :
          HumanAnswers(o, a)
              => (ask'[o].st = "returned" /\ AnswerIn(ask'[o].result) = a)]_vars

\* ------------------------------------------------------------------ C15
\* The configuration the task of caller o runs with: its browser was built from
\* the runner's headless (automation_runner.py:57, 156) and its LLM from the
\* runner's llm_model (automation_runner.py:150), both fixed in __init__
\* (automation_runner.py:49-50)
InFlightConfigLive(o) == [headless |-> cfgHeadless, llm_model |-> cfgModel]
InFlightConfig(o) ==
    IF o = ConsoleAsker
    THEN [headless  |-> _current_task.runBrowser.headless,
          llm_model |-> _current_task.llm_model]
    ELSE [headless  |-> net[o].browser.headless,
          llm_model |-> net[o].llm_model]

\* C15: no step, so no /model, /headless or PUT /api/settings, alters the
\* configuration a task that is in flight before and after the step runs with.
C15_InFlightConfigKept ==
    [][\A o \in Askers :
          (AgentRuns(o) /\ AgentRuns(o)') => InFlightConfig(o)' = InFlightConfig(o)]_vars

\* C15 witness: settings were changed while a console task and a network task
\* were in flight; both still run with the model they started with
C15_Witness ==
    /\ AgentRuns(ConsoleAsker) /\ InFlightConfig(ConsoleAsker).llm_model # cfgModel
    /\ \E i \in NetSlots : AgentRuns(i) /\ InFlightConfig(i).llm_model # cfgModel

\* ------------------------------------------------------------------ C16
\* A _close_browser call returns after stop() returned or raised: a scheduled
\* call (chat.py:246) or the call of start_chat's finally block (chat.py:494)
ScheduledCloseReturns == closeAwaiting' < closeAwaiting
ShutdownCloseReturns  == pc = "shutdown_close" /\ pc' # "shutdown_close"

\* A _close_browser call finds no handle and returns at once (chat.py:170)
CloseFindsNone ==
    /\ _browser = NoBrowser
    /\ \/ closeScheduled' < closeScheduled
       \/ pc \in {"prompt", "await_task"} /\ pc' = "shutdown_wait"

\* C16: a _close_browser call that returns after stop() returned or raised
\* leaves the shared handle null, and in start_chat's finally block the code
\* after it runs on (no error came out of it); a call that finds no handle
\* changes nothing of the browser state.
C16_CloseBestEffort ==
    [][/\ ScheduledCloseReturns => _browser' = NoBrowser
       /\ ShutdownCloseReturns
            => (_browser' = NoBrowser /\ pc' = "shutdown_wait" /\ pendingExc' = pendingExc)
       /\ CloseFindsNone => UNCHANGED browserVars]_vars

\* C16 witness: stop() was invoked on a browser, every close call has returned,
\* the finally block is past its own call and the handle is null
C16_Witness ==
    /\ pc = "shutdown_wait"
    /\ closeScheduled = 0 /\ closeAwaiting = 0
    /\ _browser = NoBrowser
    /\ \E i \in DOMAIN browsers : browsers[i].stopInvoked

\* ------------------------------------------------------------------ C17
\* C17: when the banner and the first prompt are shown the listener accepts
\* connections.
C17_ListenerReadyAtBanner == [][(pc = "sleep" /\ pc' = "prompt") => server = "serving"]_vars

\* ------------------------------------------------------------------ C18
\* C18: when shutdown has completed the listener has stopped or was cancelled,
\* the shared browser is released and no exception leaves start_chat.
C18_ShutdownCompletes ==
    pc = "exited"
        => (/\ server \in {"stopped", "cancelled"}
            /\ _browser = NoBrowser
            /\ pendingExc = "none")

\* ------------------------------------------------------------------ C19
\* C19: while the credential is missing no listener has been started and no
\* task runs or has run, on the console or for the network; the program is
\* before its key check or has terminated.
C19_NoKeyNoRun ==
    google_api_key = ""
        => (/\ pc \in {"start", "aborted"}
            /\ server = "none"
            /\ _current_task = NoTask /\ _history = <<>>
            /\ created = 0
            /\ \A i \in NetSlots : net[i] = FreeSlot)

\* C19 witness: no key was configured, none was supplied, the program has
\* terminated
C19_Witness == pc = "aborted" /\ google_api_key = "" /\ server = "none"

\* ------------------------------------------------------------------ C20
\* A step of the cancellation of the console task: the interrupt that requests
\* it (chat.py:372-374), the task ending cancelled, _execute_task recording it
\* (chat.py:387-398)
Cancelling ==
    \/ ~_current_task.mustCancel /\ _current_task'.mustCancel
    \/ _current_task.st # "cancelled" /\ _current_task'.st = "cancelled"
    \/ _current_task.st = "cancelled" /\ _current_task' = NoTask

\* C20: no step of a task's cancellation changes the listener task or a
\* request it is serving.
C20_CancelLeavesListener == [][Cancelling => (server' = server /\ net' = net)]_vars

\* C20 witness: a task was cancelled and recorded, the listener serves and a
\* network request is in flight
C20_Witness ==
    /\ Len(_history) >= 1 /\ _history[1].cancelled
    /\ server = "serving"
    /\ \E i \in NetSlots : net[i].st = "running"

\* ------------------------------------------------------------------ C21
\* C21: the session is at the prompt with at most one KeyboardInterrupt received
\* since the last line: the second of two consecutive ones has left the REPL
\* (and a single one has not).
C21_SecondInterruptExits ==
    /\ pc = "prompt" => interrupts <= 1
    /\ interrupts = 1 => pc = "prompt"

TaskDone(t) == t.st \in {"result", "raised", "cancelled"}

\* C23: no history entry has success and cancelled both true; an interrupt,
\* under _cancel_handler or at the prompt, neither changes nor adds an entry;
\* and a task that is done stays as it is until _execute_task records it, a
\* result as an entry with cancelled false and the result's success, a
\* cancellation as an entry with cancelled true and success false.
C23_OutcomesExclusiveAndFinal ==
    [][/\ \A i \in DOMAIN _history' : ~(_history'[i].success /\ _history'[i].cancelled)
       /\ (Sigint \/ PromptInterrupt) => _history' = _history
       /\ TaskDone(_current_task)
            => \/ _current_task' = _current_task /\ _history' = _history
               \/ /\ _current_task' = NoTask
                  /\ _current_task.st = "result"
                       => _history' = Append(_history, [task |-> _current_task.desc,
                                                         success |-> _current_task.success,
                                                         cancelled |-> FALSE])
                  /\ _current_task.st = "cancelled"
                       => _history' = Append(_history, [task |-> _current_task.desc,
                                                         success |-> FALSE,
                                                         cancelled |-> TRUE])]_vars

\* C23 witness: a cancelled task and after it a successful one are recorded
C23_Witness ==
    /\ Len(_history) = 2
    /\ _history[1].cancelled /\ ~_history[1].success
    /\ _history[2].success /\ ~_history[2].cancelled

\* ------------------------------------------------------------------ C24
\* C24: a step leaves the history as it is, or appends one entry, for the task
\* _execute_task awaited and that is done, labelled with the description that
\* task was submitted with, or is /clear, which empties the history and
\* changes nothing else of the session.
C24_HistoryAppendOnly ==
    [][\/ _history' = _history
       \/ /\ pc = "await_task" /\ TaskDone(_current_task)
          /\ Len(_history') = Len(_history) + 1
          /\ SubSeq(_history', 1, Len(_history)) = _history
          /\ _history'[Len(_history')].task = _current_task.desc
       \/ /\ pc = "prompt" /\ pc' = "prompt"
          /\ _history' = <<>>
          /\ UNCHANGED <<pendingExc, _current_task, sigintHandler, original_handler,
                         browserVars, closeVars, settingsVars, netVars, ask>>]_vars

\* C24 witness: two tasks are recorded in the order they ended, the session is
\* back at the prompt
C24_Witness ==
    /\ pc = "prompt"
    /\ Len(_history) = 2
    /\ _history[1].success /\ _history[2].cancelled
    /\ \A i \in 1 .. 2 : _history[i].task \in Descriptions

\* ------------------------------------------------------------------ C25
\* The reads the REPL prompt and the console fallback of ask_human make
ReadingOffLoop == Reading("prompt") \/ Reading("ask")

\* C25: while the REPL prompt or the console fallback of ask_human waits for a
\* line, the event loop goes on: a request to the listener is handled (settings
\* are updated, a run is started when a slot is free, a running handler
\* answers), and the console task that waits in ask_human takes SIGINT and, once
\* asked to cancel, ends cancelled.
C25_LoopServicedWhileReading ==
    /\ (ReadingOffLoop /\ server = "serving")
          => /\ ENABLED (\E m \in Models, h \in BOOLEAN : UpdateSettings(m, h))
             /\ \A i \in NetSlots :
                   (net[i].st = "running" /\ ask[i].st = "none") => ENABLED NetAgentDone(i)
             /\ ((\E i \in NetSlots : net[i].st = "free") /\ created < MaxBrowsers)
                   => ENABLED (\E i \in NetSlots, h \in BOOLEAN : AutomateTask(i, h))
    /\ (ask[ConsoleAsker].st = "console" /\ _current_task.st = "running")
          => /\ ENABLED Sigint
             /\ _current_task.mustCancel => ENABLED AgentCancelled

\* ------------------------------------------------------------------ C26
\* C26: whatever /headless, /model and PUT /api/settings were issued, the
\* session's headless flag, config.headless and runtime_settings.headless are
\* the same value, and config.llm_model is runtime_settings.llm_model.
C26_SettingsAgree ==
    /\ _headless = cfgHeadless
    /\ cfgHeadless = rtHeadless
    /\ cfgModel = rtModel

\* ------------------------------------------------------------------ C27
\* The handler of a run-task request with headless flag h starts its run in
\* slot i
NetRunStarts(i, h) ==
    /\ AutomateWorkflow(i, h) \/ AutomateTask(i, h)
    /\ net[i].st = "free" /\ net'[i].st = "running"

\* C27: the browser of a run started for a network request is headless when
\* the request's flag is true, and otherwise as runtime_settings.headless says
\* at that moment.
C27_RequestHeadlessWithFallback ==
    [][\A i \in NetSlots, h \in BOOLEAN :
          NetRunStarts(i, h) =>
              net'[i].browser.headless = (IF h = TRUE THEN TRUE ELSE rtHeadless)]_vars

\* C27 witness: a run started for a request is headless although the runtime
\* setting, never changed, is not: the request's flag decided
C27_Witness ==
    /\ ~headlessChanged /\ ~rtHeadless
    /\ \E i \in NetSlots : net[i].st = "running" /\ net[i].browser.headless

====
